---- MODULE Spec2Model ----
(***************************************************************************)
(* Model of the fimgen example-synthesis engine: the StringRegionManager,  *)
(* the FIMExampleBuilder and the FIMTransformer.                           *)
(*                                                                         *)
(* A JavaScript string is a sequence of one-character strings, so that     *)
(* slicing, concatenation and indexOf are computed and not assumed.        *)
(* null is the empty tuple <<>> for the cursor and the region, the string  *)
(* "null" for the format and the reference 0 for the manager.              *)
(***************************************************************************)
EXTENDS Integers, Sequences, FiniteSets, TLC

VARIABLES
  builders,   \* builder id -> the fields of that FIMExampleBuilder
  managers,   \* heap of StringRegionManager objects: reference -> fields
  last,       \* the last call: who made it, what it threw, what it returned
  held        \* the Example a caller has kept, and what it still shares

vars == <<builders, managers, last, held>>

----------------------------------------------------------------------------
(* Bounds of the model and program constants *)

\* small cursor / region arguments range over -1..MaxPos
MaxPos == 3
\* length of the long code string (more than MIDDLE_SIZE characters)
LongLen == 52
\* the PSM/SPM middle window
MIDDLE_SIZE == 50

Min(a, b) == IF a < b THEN a ELSE b
Max(a, b) == IF a > b THEN a ELSE b

----------------------------------------------------------------------------
(* Token literals and format identifiers *)

EDITABLE_REGION_START ==
  <<"<","|","e","d","i","t","a","b","l","e","_","r","e","g","i","o","n","_",
    "s","t","a","r","t","|",">">>
USER_CURSOR_IS_HERE ==
  <<"<","|","u","s","e","r","_","c","u","r","s","o","r","_","i","s","_",
    "h","e","r","e","|",">">>
EDITABLE_REGION_END ==
  <<"<","|","e","d","i","t","a","b","l","e","_","r","e","g","i","o","n","_",
    "e","n","d","|",">">>
FIM_PREFIX == <<"<","|","f","i","m","_","p","r","e","f","i","x","|",">">>
FIM_SUFFIX == <<"<","|","f","i","m","_","s","u","f","f","i","x","|",">">>
FIM_MIDDLE == <<"<","|","f","i","m","_","m","i","d","d","l","e","|",">">>

PSM == "prefix_suffix_middle"
SPM == "suffix_prefix_middle"
ZED == "zed_format"
MIXED == "mixed"
FIMFormat == {PSM, SPM, ZED, MIXED}

NULL == <<>>
NoFormat == "null"
NoManager == 0

----------------------------------------------------------------------------
(* JavaScript string primitives *)

\* String.prototype.substring(a, b): both ends clamped into [0, length],
\* swapped when a > b
substring(s, a, b) ==
  LET a1 == Max(0, Min(a, Len(s)))
      b1 == Max(0, Min(b, Len(s)))
  IN  SubSeq(s, Min(a1, b1) + 1, Max(a1, b1))

\* whether tok occurs in s at 0-based offset i
OccursAt(s, tok, i) ==
  /\ i >= 0
  /\ i + Len(tok) <= Len(s)
  /\ SubSeq(s, i + 1, i + Len(tok)) = tok

\* String.prototype.indexOf(tok): the first offset, -1 when there is none
indexOf(s, tok) ==
  LET hits == {i \in 0..Len(s) : OccursAt(s, tok, i)}
  IN  IF hits = {} THEN -1
      ELSE CHOOSE i \in hits : \A j \in hits : i <= j

----------------------------------------------------------------------------
(* StringRegionManager *)

StringRegionManager(text) == [text |-> text, length |-> Len(text)]

extractRegionOffByOne(m, start, end) ==
  LET validStart == Max(0, Min(start, m.length))
      validEnd == Max(validStart, Min(end - 1, m.length))
  IN  substring(m.text, validStart, validEnd)

extractRegion(m, start, end) ==
  LET validStart == Max(0, Min(start, m.length))
      validEnd == Max(validStart, Min(end, m.length))
  IN  substring(m.text, validStart, validEnd)

\* mutant: the last offset of the text is taken for the upper bound
clampPositionToLast(m, position) == Max(0, Min(position, m.length - 1))

clampPosition(m, position) == Max(0, Min(position, m.length))

isValidPosition(m, position) == position >= 0 /\ position <= m.length

RegionText(start, end) == [type |-> "text", start |-> start, end |-> end]
RegionToken(token) == [type |-> "token", token |-> token]

RECURSIVE buildWithTokens(_, _)
buildWithTokens(m, regions) ==
  IF regions = <<>> THEN <<>>
  ELSE LET n == Len(regions)
           region == regions[n]
           result == buildWithTokens(m, SubSeq(regions, 1, n - 1))
       IN  IF region.type = "text"
           THEN result \o extractRegion(m, region.start, region.end)
           ELSE IF region.type = "token"
           THEN result \o region.token
           ELSE result

\* String.prototype.split('\n')
RECURSIVE split(_)
split(s) ==
  LET i == indexOf(s, <<"\n">>)
  IN  IF i = -1 THEN <<s>>
      ELSE <<SubSeq(s, 1, i)>> \o split(SubSeq(s, i + 2, Len(s)))

\* the characters \s matches and trim() removes
Whitespace == {" ", "\t", "\n", "\r"}

\* String.prototype.trim()
RECURSIVE trimStart(_)
trimStart(s) ==
  IF s # <<>> /\ s[1] \in Whitespace THEN trimStart(SubSeq(s, 2, Len(s)))
  ELSE s
RECURSIVE trimEnd(_)
trimEnd(s) ==
  IF s # <<>> /\ s[Len(s)] \in Whitespace
  THEN trimEnd(SubSeq(s, 1, Len(s) - 1))
  ELSE s
trim(s) == trimEnd(trimStart(s))

startsWith(s, prefix) == OccursAt(s, prefix, 0)
includes(s, part) == indexOf(s, part) # -1

\* line.match(/^(\s*)/)[1].length
_getIndentLevel(line) == Len(line) - Len(trimStart(line))

\* lineNumber is 0-based, as in the code; lines[lineNumber + 1] is the line
RECURSIVE _lineToPosition(_, _)
_lineToPosition(lines, lineNumber) ==
  IF lineNumber < 0 \/ lineNumber >= Len(lines) THEN 0
  ELSE IF lineNumber = 0 THEN 0
  ELSE _lineToPosition(lines, lineNumber - 1) + Len(lines[lineNumber]) + 1

\* the lineNumber getLineContext finds, NULL for a position outside the text
getLineContext(m, position) ==
  LET lines == split(m.text)
      ends == {i \in 0..(Len(lines) - 1) :
                 position <= _lineToPosition(lines, i) + Len(lines[i + 1])}
  IN  IF position < 0 \/ position > m.length THEN NULL
      ELSE IF ends = {} THEN <<Len(lines) - 1>>
      ELSE <<CHOOSE i \in ends : \A j \in ends : i <= j>>

\* the backward loop from line i: the nearest earlier line that is not blank
\* and is indented less than the current one, currentLine when there is none
RECURSIVE backwardScan(_, _, _, _)
backwardScan(lines, currentLine, currentIndent, i) ==
  IF i < 0 THEN currentLine
  ELSE IF trim(lines[i + 1]) = <<>>
  THEN backwardScan(lines, currentLine, currentIndent, i - 1)
  ELSE IF _getIndentLevel(lines[i + 1]) < currentIndent THEN i
  ELSE backwardScan(lines, currentLine, currentIndent, i - 1)

\* mutant: blockEnd is not moved along with the lines passed
RECURSIVE forwardScanKeepsEnd(_, _, _, _)
forwardScanKeepsEnd(lines, blockIndent, blockEnd, i) ==
  IF i >= Len(lines) THEN blockEnd
  ELSE IF trim(lines[i + 1]) # <<>>
          /\ _getIndentLevel(lines[i + 1]) <= blockIndent
  THEN IF _getIndentLevel(lines[i + 1]) = blockIndent
          /\ trim(lines[i + 1]) = <<"}">>
       THEN i
       ELSE i - 1
  ELSE forwardScanKeepsEnd(lines, blockIndent, blockEnd, i + 1)

\* the forward loop from line i, blockEnd being its value so far
RECURSIVE forwardScan(_, _, _, _)
forwardScan(lines, blockIndent, blockEnd, i) ==
  IF i >= Len(lines) THEN blockEnd
  ELSE IF trim(lines[i + 1]) # <<>>
          /\ _getIndentLevel(lines[i + 1]) <= blockIndent
  THEN IF _getIndentLevel(lines[i + 1]) = blockIndent
          /\ trim(lines[i + 1]) = <<"}">>
       THEN i
       ELSE i - 1
  ELSE forwardScan(lines, blockIndent, i, i + 1)

\* the line numbers turned into character positions
blockPositions(lines, blockStart, blockEnd) ==
  LET lastLine == Min(Len(lines) - 1, blockEnd)
  IN  [start |-> _lineToPosition(lines, Max(0, blockStart)),
       end |-> _lineToPosition(lines, lastLine) + Len(lines[lastLine + 1]),
       startLine |-> <<blockStart>>, endLine |-> <<blockEnd>>]

blockAround(lines, currentLine) ==
  LET currentIndent == _getIndentLevel(lines[currentLine + 1])
      blockStart ==
        backwardScan(lines, currentLine, currentIndent, currentLine - 1)
      \* the scan assigns blockStart and blockIndent together
      blockIndent == IF blockStart # currentLine
                     THEN _getIndentLevel(lines[blockStart + 1])
                     ELSE currentIndent
      blockEnd == forwardScan(lines, blockIndent, currentLine, currentLine + 1)
  IN  blockPositions(lines, blockStart, blockEnd)

findBlockBoundaries(m, position) ==
  LET context == getLineContext(m, position)
  IN  IF context = NULL
      THEN [start |-> 0, end |-> m.length, startLine |-> NULL, endLine |-> NULL]
      ELSE blockAround(split(m.text), context[1])

----------------------------------------------------------------------------
(* Inputs *)

Builders == {1, 2}
Refs == {1, 2}

CodeAB == <<"A","B">>
CodeABC == <<"A","B","C">>
\* a code string that holds a token literal
CodeToken == FIM_MIDDLE
\* LongLen characters, each position distinguishable from its neighbours
Alphabet == <<"a","b","c","d","e","f","g">>
CodeLong == [i \in 1..LongLen |-> Alphabet[((i - 1) % Len(Alphabet)) + 1]]

EditPair(after) ==
  [after |-> after, filepath |-> "test.js", commitHash |-> "abc123",
   language |-> "javascript", commitMessage |-> "Add greeting function"]

EditPairs == {EditPair(CodeABC)}

----------------------------------------------------------------------------
(* FIMExample and FIMExampleBuilder *)

EmptyMetadata == [k \in {} |-> ""]

FIMExample(prompt, completion, context, format, cursor, region, metadata) ==
  [prompt |-> prompt, completion |-> completion, context |-> context,
   format |-> format, cursorPosition |-> cursor,
   editableRegion |-> region, metadata |-> metadata]

\* mutant: reset() forgets the manager
resetKeepsManager(b) ==
  [code |-> <<>>, cursorPosition |-> NULL, editableRegion |-> NULL,
   format |-> NoFormat, metadata |-> [k \in {} |-> ""], manager |-> b.manager]

\* a builder after its constructor, which calls reset()
reset(b) ==
  [code |-> <<>>, cursorPosition |-> NULL, editableRegion |-> NULL,
   format |-> NoFormat, metadata |-> EmptyMetadata, manager |-> NoManager]

\* new FIMExampleBuilder(): reset() on an object that has no field yet
FIMExampleBuilder == reset([manager |-> NoManager])

\* the assignments of withCode, ref being the new StringRegionManager
withCode(b, code, ref) == [b EXCEPT !.code = code, !.manager = ref]

withCursor(b, m, position) ==
  [b EXCEPT !.cursorPosition = <<clampPosition(m, position)>>]

\* mutant: the region clamped into [0, length] and not [0, length-1]
withEditableRegionClampToLength(b, start, end) ==
  LET validStart == Max(0, Min(start, Len(b.code)))
      validEnd == Max(validStart, Min(end, Len(b.code)))
      cur == b.cursorPosition
      moved == IF cur # NULL /\ (cur[1] < validStart \/ cur[1] > validEnd + 1)
               THEN <<Max(validStart, Min(cur[1], validEnd + 1))>>
               ELSE cur
  IN  [b EXCEPT !.cursorPosition = moved,
                !.editableRegion = <<validStart, validEnd>>]

withEditableRegion(b, start, end) ==
  LET validStart == Max(0, Min(start, Len(b.code) - 1))
      validEnd == Max(validStart, Min(end, Len(b.code) - 1))
      cur == b.cursorPosition
      moved == IF cur # NULL /\ (cur[1] < validStart \/ cur[1] > validEnd + 1)
               THEN <<Max(validStart, Min(cur[1], validEnd + 1))>>
               ELSE cur
  IN  [b EXCEPT !.cursorPosition = moved,
                !.editableRegion = <<validStart, validEnd>>]

withFormat(b, format) == [b EXCEPT !.format = format]

withMetadata(b, editPair) ==
  [b EXCEPT !.metadata =
     [filepath |-> editPair.filepath, commit |-> editPair.commitHash,
      language |-> editPair.language,
      commitMessage |-> editPair.commitMessage]]

\* mutant: a falsy cursor (0) taken for an unset one
_validateFalsyCursor(b) ==
  IF b.code = <<>> THEN "Code is required. Call withCode() first."
  ELSE IF b.format = NoFormat
  THEN "Format is required. Call withFormat() first."
  ELSE IF b.editableRegion = NULL
  THEN "Editable region is required. Call withEditableRegion() first."
  ELSE IF b.cursorPosition = NULL \/ b.cursorPosition = <<0>>
  THEN "Cursor position is required. Call withCursor() first."
  ELSE ""

\* the error _validate throws, "" when it throws none
_validate(b) ==
  IF b.code = <<>> THEN "Code is required. Call withCode() first."
  ELSE IF b.format = NoFormat
  THEN "Format is required. Call withFormat() first."
  ELSE IF b.editableRegion = NULL
  THEN "Editable region is required. Call withEditableRegion() first."
  ELSE IF b.cursorPosition = NULL
  THEN "Cursor position is required. Call withCursor() first."
  ELSE ""

\* mutant: the region end taken as exclusive
_buildZedFormatExclusiveEnd(b, m) ==
  LET start == b.editableRegion[1]
      end == b.editableRegion[2]
      cur == b.cursorPosition[1]
      prompt == buildWithTokens(m, <<
        RegionText(0, start),
        RegionToken(EDITABLE_REGION_START),
        RegionText(start, cur),
        RegionToken(USER_CURSOR_IS_HERE)>>)
      completion == IF cur > end THEN <<>>
                    ELSE extractRegion(m, cur, end)
      context == buildWithTokens(m, <<
        RegionText(0, start),
        RegionToken(EDITABLE_REGION_START),
        RegionText(start, cur),
        RegionToken(USER_CURSOR_IS_HERE),
        RegionText(cur, end + 1),
        RegionToken(EDITABLE_REGION_END),
        RegionText(end + 1, Len(b.code))>>)
  IN  FIMExample(prompt, completion, context, ZED, cur,
                 b.editableRegion, b.metadata)

_buildZedFormat(b, m) ==
  LET start == b.editableRegion[1]
      end == b.editableRegion[2]
      cur == b.cursorPosition[1]
      prompt == buildWithTokens(m, <<
        RegionText(0, start),
        RegionToken(EDITABLE_REGION_START),
        RegionText(start, cur),
        RegionToken(USER_CURSOR_IS_HERE)>>)
      completion == IF cur > end THEN <<>>
                    ELSE extractRegion(m, cur, end + 1)
      context == buildWithTokens(m, <<
        RegionText(0, start),
        RegionToken(EDITABLE_REGION_START),
        RegionText(start, cur),
        RegionToken(USER_CURSOR_IS_HERE),
        RegionText(cur, end + 1),
        RegionToken(EDITABLE_REGION_END),
        RegionText(end + 1, Len(b.code))>>)
  IN  FIMExample(prompt, completion, context, ZED, cur,
                 b.editableRegion, b.metadata)

\* mutant: the suffix starts one character after the middle window
_buildPSMFormatSkipsOne(b, m) ==
  LET cur == b.cursorPosition[1]
      middleSize == Min(MIDDLE_SIZE, Len(b.code) - cur)
      middleEnd == cur + middleSize
      prompt == buildWithTokens(m, <<
        RegionToken(FIM_PREFIX),
        RegionText(0, cur),
        RegionToken(FIM_SUFFIX),
        RegionText(middleEnd + 1, Len(b.code)),
        RegionToken(FIM_MIDDLE)>>)
      completion == extractRegion(m, cur, middleEnd)
  IN  FIMExample(prompt, completion, b.code, PSM, cur,
                 b.editableRegion, b.metadata)

_buildPSMFormat(b, m) ==
  LET cur == b.cursorPosition[1]
      middleSize == Min(MIDDLE_SIZE, Len(b.code) - cur)
      middleEnd == cur + middleSize
      prompt == buildWithTokens(m, <<
        RegionToken(FIM_PREFIX),
        RegionText(0, cur),
        RegionToken(FIM_SUFFIX),
        RegionText(middleEnd, Len(b.code)),
        RegionToken(FIM_MIDDLE)>>)
      completion == extractRegion(m, cur, middleEnd)
  IN  FIMExample(prompt, completion, b.code, PSM, cur,
                 b.editableRegion, b.metadata)

_buildSPMFormat(b, m) ==
  LET cur == b.cursorPosition[1]
      middleSize == Min(MIDDLE_SIZE, Len(b.code) - cur)
      middleEnd == cur + middleSize
      prompt == buildWithTokens(m, <<
        RegionToken(FIM_SUFFIX),
        RegionText(middleEnd, Len(b.code)),
        RegionToken(FIM_PREFIX),
        RegionText(0, cur),
        RegionToken(FIM_MIDDLE)>>)
      completion == extractRegion(m, cur, middleEnd)
  IN  FIMExample(prompt, completion, b.code, SPM, cur,
                 b.editableRegion, b.metadata)

\* the Example build() returns once _validate has passed; random is the
\* outcome of Math.random() < 0.5
\* a build() that leaves the requested format on the Example
buildTagsRequested(b, m, random) ==
  IF b.format = ZED THEN _buildZedFormat(b, m)
  ELSE IF b.format = PSM THEN _buildPSMFormat(b, m)
  ELSE IF b.format = SPM THEN _buildSPMFormat(b, m)
  ELSE [(IF random THEN _buildPSMFormat(b, m) ELSE _buildSPMFormat(b, m))
        EXCEPT !.format = b.format]

\* random is the outcome of Math.random() < 0.5
build(b, m, random) ==
  IF b.format = ZED THEN _buildZedFormat(b, m)
  ELSE IF b.format = PSM THEN _buildPSMFormat(b, m)
  ELSE IF b.format = SPM THEN _buildSPMFormat(b, m)
  ELSE IF random THEN _buildPSMFormat(b, m) ELSE _buildSPMFormat(b, m)

clone(b) ==
  [code |-> b.code, cursorPosition |-> b.cursorPosition,
   editableRegion |-> b.editableRegion, format |-> b.format,
   metadata |-> b.metadata, manager |-> b.manager]

----------------------------------------------------------------------------
(* ASTProcessor *)

\* the numbers of the set S in descending order
RECURSIVE Descending(_)
Descending(S) ==
  IF S = {} THEN <<>>
  ELSE LET most == CHOOSE x \in S : \A y \in S : y <= x
       IN  <<most>> \o Descending(S \ {most})

\* the numbers of the set S in ascending order
RECURSIVE Ascending(_)
Ascending(S) ==
  IF S = {} THEN <<>>
  ELSE LET least == CHOOSE x \in S : \A y \in S : x <= y
       IN  <<least>> \o Ascending(S \ {least})

Range(seq) == {seq[i] : i \in 1..Len(seq)}

\* Array.prototype.sort((a, b) => a - b), duplicates kept
RECURSIVE sort(_)
sort(seq) ==
  IF seq = <<>> THEN <<>>
  ELSE LET least == CHOOSE x \in Range(seq) : \A y \in Range(seq) : x <= y
           at == CHOOSE i \in 1..Len(seq) : seq[i] = least
       IN  <<least>> \o sort(SubSeq(seq, 1, at - 1) \o SubSeq(seq, at + 1, Len(seq)))

\* [...new Set(positions)]: the first occurrence of each value, in order
RECURSIVE unique(_)
unique(seq) ==
  IF seq = <<>> THEN <<>>
  ELSE LET front == unique(SubSeq(seq, 1, Len(seq) - 1))
           x == seq[Len(seq)]
       IN  IF x \in Range(front) THEN front ELSE Append(front, x)

\* the positions the loop over the lines pushes, from line number i (0-based)
RECURSIVE candidatePositions(_, _, _)
candidatePositions(code, lines, i) ==
  IF i >= Len(lines) THEN <<>>
  ELSE LET line == lines[i + 1]
           currentPos == _lineToPosition(lines, i)
           lineEnd == currentPos + Len(line)
           stripped == trim(line)
           after(ch) == Min(currentPos + indexOf(line, <<ch>>) + 1, Len(code) - 1)
           pushed ==
             IF stripped # <<>> /\ ~startsWith(stripped, <<"#">>)
                /\ ~startsWith(stripped, <<"/", "/">>)
             THEN IF includes(line, <<":">>) THEN <<after(":")>>
                  ELSE IF includes(line, <<";">>) THEN <<after(";")>>
                  ELSE IF includes(line, <<"{">>) THEN <<after("{")>>
                  ELSE <<Min(lineEnd, Len(code) - 1)>>
             ELSE <<>>
       IN  pushed \o candidatePositions(code, lines, i + 1)

\* floor(length / (numPositions + 1)), at least 1
Step(code, numPositions) == Max(1, Len(code) \div (numPositions + 1))

\* the evenly spaced offsets added to the set S, from the i-th on, while S
\* has fewer than numPositions members
RECURSIVE evenlySpaced(_, _, _, _)
evenlySpaced(S, code, numPositions, i) ==
  IF i > numPositions \/ Cardinality(S) >= numPositions THEN S
  ELSE evenlySpaced(
         S \cup {Min(i * Step(code, numPositions), Len(code) - 1)},
         code, numPositions, i + 1)

\* every array _fallbackCursorSelection can return, over all the values
\* Math.random() can yield
_fallbackCursorSelection(code, numPositions) ==
  IF code = <<>> THEN {<<0>>}
  ELSE
    LET positions == candidatePositions(code, split(code), 0)
        kept == SelectSeq(unique(positions),
                          LAMBDA q : q >= 0 /\ q < Len(code))
        uniquePositions ==
          IF kept = <<>>
          THEN [i \in 1..numPositions |->
                  Min(i * Step(code, numPositions), Len(code) - 1)]
          ELSE kept
        spaced == evenlySpaced(Range(uniquePositions), code, numPositions, 1)
    IN  IF Len(uniquePositions) < numPositions
        THEN \* up to 100 random offsets, until the set has numPositions
             IF Cardinality(spaced) >= numPositions
             THEN {Ascending(spaced)}
             ELSE {Ascending(spaced \cup R) :
                     R \in {Q \in SUBSET (0..(Len(code) - 1)) :
                              Cardinality(spaced \cup Q) <= numPositions}}
        ELSE IF Len(uniquePositions) > numPositions
        THEN \* the first numPositions of a random order
             {Ascending(R) :
                R \in {Q \in SUBSET Range(uniquePositions) :
                         Cardinality(Q) = numPositions}}
        ELSE {sort(uniquePositions)}

selectCursorPositions(code, language, numPositions) ==
  _fallbackCursorSelection(code, numPositions)

----------------------------------------------------------------------------
(* FIMTransformer *)

metadataOf(editPair) ==
  [filepath |-> editPair.filepath, commit |-> editPair.commitHash,
   language |-> editPair.language, commitMessage |-> editPair.commitMessage]

\* the two ends returned in the wrong order
widenedSwapped(code, safeCursorPos, boundaries) ==
  <<boundaries.end, boundaries.start>>

\* the block's boundaries, widened by 50 on a side the cursor is beyond
widened(code, safeCursorPos, boundaries) ==
  LET startPos == IF safeCursorPos < boundaries.start
                  THEN Max(0, safeCursorPos - 50)
                  ELSE boundaries.start
      endPos == IF safeCursorPos > boundaries.end
                THEN Min(Len(code), safeCursorPos + 50)
                ELSE boundaries.end
  IN  <<startPos, endPos>>

_determineEditableRegion(code, cursorPos) ==
  IF code = <<>> THEN <<0, 0>>
  ELSE
    LET manager == StringRegionManager(code)
        safeCursorPos == clampPosition(manager, cursorPos)
    IN  widened(code, safeCursorPos,
                findBlockBoundaries(manager, safeCursorPos))

_createZedFormatExample(code, cursorPos, editableRegion, editPair) ==
  LET manager == StringRegionManager(code)
      validStart == clampPosition(manager, editableRegion[1])
      validEnd == clampPosition(manager, editableRegion[2])
      validCursorPos ==
        clampPosition(manager, Max(validStart, Min(cursorPos, validEnd)))
      inputText == buildWithTokens(manager, <<
        RegionText(0, validStart),
        RegionToken(EDITABLE_REGION_START),
        RegionText(validStart, validCursorPos),
        RegionToken(USER_CURSOR_IS_HERE)>>)
      completion == extractRegion(manager, validCursorPos, validEnd)
      context == buildWithTokens(manager, <<
        RegionText(0, validStart),
        RegionToken(EDITABLE_REGION_START),
        RegionText(validStart, validCursorPos),
        RegionToken(USER_CURSOR_IS_HERE),
        RegionText(validCursorPos, validEnd),
        RegionToken(EDITABLE_REGION_END),
        RegionText(validEnd, Len(code))>>)
  IN  FIMExample(inputText, completion, context, ZED, validCursorPos,
                 <<validStart, validEnd>>, metadataOf(editPair))

_createPSMFormatExample(code, cursorPos, editableRegion, editPair) ==
  LET manager == StringRegionManager(code)
      validCursorPos == clampPosition(manager, cursorPos)
      middleSize == Min(MIDDLE_SIZE, Len(code) - validCursorPos)
      middleEnd == validCursorPos + middleSize
      prompt == buildWithTokens(manager, <<
        RegionToken(FIM_PREFIX),
        RegionText(0, validCursorPos),
        RegionToken(FIM_SUFFIX),
        RegionText(middleEnd, Len(code)),
        RegionToken(FIM_MIDDLE)>>)
      completion == extractRegion(manager, validCursorPos, middleEnd)
  IN  FIMExample(prompt, completion, code, PSM, validCursorPos,
                 editableRegion, metadataOf(editPair))

_createSPMFormatExample(code, cursorPos, editableRegion, editPair) ==
  LET manager == StringRegionManager(code)
      validCursorPos == clampPosition(manager, cursorPos)
      middleSize == Min(MIDDLE_SIZE, Len(code) - validCursorPos)
      middleEnd == validCursorPos + middleSize
      prompt == buildWithTokens(manager, <<
        RegionToken(FIM_SUFFIX),
        RegionText(middleEnd, Len(code)),
        RegionToken(FIM_PREFIX),
        RegionText(0, validCursorPos),
        RegionToken(FIM_MIDDLE)>>)
      completion == extractRegion(manager, validCursorPos, middleEnd)
  IN  FIMExample(prompt, completion, code, SPM, validCursorPos,
                 editableRegion, metadataOf(editPair))

\* the example the format asks for, <<>> for a format that is none of the
\* four; random is the outcome of Math.random() < 0.5
dispatch(code, format, validCursorPos, editableRegion, editPair, random) ==
  IF format = ZED
  THEN <<_createZedFormatExample(code, validCursorPos, editableRegion, editPair)>>
  ELSE IF format = PSM
  THEN <<_createPSMFormatExample(code, validCursorPos, editableRegion, editPair)>>
  ELSE IF format = SPM
  THEN <<_createSPMFormatExample(code, validCursorPos, editableRegion, editPair)>>
  ELSE IF format = MIXED
  THEN IF random
       THEN <<_createPSMFormatExample(code, validCursorPos, editableRegion, editPair)>>
       ELSE <<_createSPMFormatExample(code, validCursorPos, editableRegion, editPair)>>
  ELSE <<>>

\* what the loop body pushes for one cursor position
exampleAt(code, format, cursorPos, editPair, random) ==
  LET validCursorPos == Max(0, Min(cursorPos, Len(code) - 1))
  IN  dispatch(code, format, validCursorPos,
               _determineEditableRegion(code, validCursorPos), editPair, random)

\* the examples createFIMExamples returns for the cursor positions the
\* selector gave and the outcomes randoms of Math.random() < 0.5
RECURSIVE createFIMExamples(_, _, _, _)
createFIMExamples(editPair, format, cursorPositions, randoms) ==
  IF editPair.after = <<>> \/ cursorPositions = <<>> THEN <<>>
  ELSE LET n == Len(cursorPositions)
       IN  createFIMExamples(editPair, format,
                             SubSeq(cursorPositions, 1, n - 1), randoms)
           \o exampleAt(editPair.after, format, cursorPositions[n],
                        editPair, randoms[n])

----------------------------------------------------------------------------
(* NegativeExampleGenerator *)

\* null where the code holds a string, told apart from every string, '' too
NullString == <<"null">>
\* usedMethod = null
NoMethod == "null"

methods ==
  <<"subtle_bugs", "incomplete", "wrong_variable", "off_by_one", "type_errors">>

KTOExample(prompt, completion, label, metadata) ==
  [prompt |-> prompt, completion |-> completion, label |-> label,
   metadata |-> metadata]

\* String.prototype.lastIndexOf(tok)
lastIndexOf(s, tok) ==
  LET hits == {i \in 0..Len(s) : OccursAt(s, tok, i)}
  IN  IF hits = {} THEN -1
      ELSE CHOOSE i \in hits : \A j \in hits : j <= i

\* code.substring(0, idx) + replacement + code.substring(idx + old.length)
\* for idx = code.indexOf(old), code itself when idx is -1
spliceAt(code, idx, size, replacement) ==
  IF idx = -1 THEN code
  ELSE substring(code, 0, idx) \o replacement
       \o substring(code, idx + size, Len(code))

replaceFirst(code, old, replacement) ==
  spliceAt(code, indexOf(code, old), Len(old), replacement)

subtleBugReplacements(language) ==
  IF language = "python" THEN
    <<<<<<"=", "=">>, <<"=">>>>,
     <<<<" ", "i", "s", " ">>, <<" ", "=", "=", " ">>>>,
     <<<<" ", "a", "n", "d", " ">>, <<" ", "o", "r", " ">>>>,
     <<<<"r", "a", "n", "g", "e", "(", "l", "e", "n", "(">>, <<"r", "a", "n", "g", "e", "(", "1", ",", " ", "l", "e", "n", "(">>>>,
     <<<<".", "a", "p", "p", "e", "n", "d", "(">>, <<".", "e", "x", "t", "e", "n", "d", "(">>>>>>
  ELSE IF language \in {"javascript", "typescript"} THEN
    <<<<<<"=", "=", "=">>, <<"=", "=">>>>,
     <<<<"!", "=", "=">>, <<"!", "=">>>>,
     <<<<"l", "e", "t", " ">>, <<"v", "a", "r", " ">>>>,
     <<<<".", "p", "u", "s", "h", "(">>, <<".", "c", "o", "n", "c", "a", "t", "(">>>>,
     <<<<"&", "&">>, <<"|", "|">>>>>>
  ELSE
    <<<<<<"+", "+">>, <<"-", "-">>>>,
     <<<<"&", "&">>, <<"|", "|">>>>,
     <<<<"<", "=">>, <<"<">>>>,
     <<<<">", "=">>, <<">">>>>>>

\* every string _introduceSubtleBugs can return, over the replacement that
\* Math.random() picks
_introduceSubtleBugs(code, language) ==
  {replaceFirst(code, r[1], r[2]) :
     r \in Range(subtleBugReplacements(language))}

\* the values of Math.floor((60 + Math.random() * 20) * length / 100)
cutPoints(length) ==
  {c \in 0..length : c * 100 < 80 * length /\ (c + 1) * 100 > 60 * length}

\* the cut moved back to the last newline when that is near the cut
cutAt(code, cutPoint) ==
  LET incomplete == substring(code, 0, cutPoint)
  IN  IF lastIndexOf(incomplete, <<"\n">>) > cutPoint - 20
      THEN substring(incomplete, 0, lastIndexOf(incomplete, <<"\n">>))
      ELSE incomplete

_makeIncomplete(code) ==
  IF code = <<>> THEN {code}
  ELSE {cutAt(code, cutPoint) : cutPoint \in cutPoints(Len(code))}

Digits ==
  {"0", "1", "2", "3", "4", "5", "6", "7", "8", "9"}
Lower ==
  {"a", "b", "c", "d", "e", "f", "g", "h", "i", "j", "k", "l", "m", "n",
   "o", "p", "q", "r", "s", "t", "u", "v", "w", "x", "y", "z"}
Upper ==
  {"A", "B", "C", "D", "E", "F", "G", "H", "I", "J", "K", "L", "M", "N",
   "O", "P", "Q", "R", "S", "T", "U", "V", "W", "X", "Y", "Z"}
\* the characters \w matches
WordChars == Lower \cup Upper \cup Digits \cup {"_"}

\* whether the character at 0-based offset i exists and is a word character
isWordAt(code, i) == i >= 0 /\ i < Len(code) /\ code[i + 1] \in WordChars

\* the maximal runs of word characters, each <<start, end>> with end
\* exclusive: the stretches that have \b on both sides and none inside
wordRuns(code) ==
  {r \in (0..Len(code)) \X (0..Len(code)) :
     /\ r[1] < r[2]
     /\ \A k \in r[1]..(r[2] - 1) : isWordAt(code, k)
     /\ ~isWordAt(code, r[1] - 1)
     /\ ~isWordAt(code, r[2])}

runText(code, r) == SubSeq(code, r[1] + 1, r[2])

\* the runs the identifier pattern of the language matches, on code that
\* holds no '$'
identifierRuns(code, language) ==
  LET head == IF language = "python" THEN Lower \cup {"_"}
              ELSE Lower \cup Upper \cup {"_"}
      tail == IF language = "python" THEN Lower \cup Digits \cup {"_"}
              ELSE WordChars
  IN  {r \in wordRuns(code) :
         /\ code[r[1] + 1] \in head
         /\ \A k \in r[1]..(r[2] - 1) : code[k + 1] \in tail}

\* the first of the runs
firstRun(runs) == CHOOSE r \in runs : \A q \in runs : r[1] <= q[1]

\* code.replace(new RegExp('\\b' + var1 + '\\b'), var2)
replaceWord(code, var1, var2) ==
  LET runs == {r \in wordRuns(code) : runText(code, r) = var1}
  IN  IF runs = {} THEN code
      ELSE spliceAt(code, firstRun(runs)[1], Len(var1), var2)

\* every string _useWrongVariable can return, over the two variables that
\* Math.random() picks
_useWrongVariable(code, language) ==
  LET variables ==
        {runText(code, r) : r \in identifierRuns(code, language)}
  IN  IF Cardinality(variables) > 1
      THEN {replaceWord(code, v[1], v[2]) :
              v \in {w \in variables \X variables : w[1] # w[2]}}
      ELSE {code}

\* parseInt of a run of digits
RECURSIVE parseInt(_)
parseInt(digits) ==
  IF digits = <<>> THEN 0
  ELSE 10 * parseInt(SubSeq(digits, 1, Len(digits) - 1))
       + (CHOOSE d \in 0..9 :
            <<"0", "1", "2", "3", "4", "5", "6", "7", "8", "9">>[d + 1]
              = digits[Len(digits)])

\* String(n) for n >= 0
RECURSIVE String(_)
String(n) ==
  LET digit == <<<<"0", "1", "2", "3", "4", "5", "6", "7", "8", "9">>[(n % 10) + 1]>>
  IN  IF n < 10 THEN digit ELSE String(n \div 10) \o digit

\* the first match of /\b(\d+)\b/ replaced by the number plus one
incrementFirstNumber(code, numbers) ==
  spliceAt(code, firstRun(numbers)[1],
           firstRun(numbers)[2] - firstRun(numbers)[1],
           String(parseInt(runText(code, firstRun(numbers))) + 1))

\* the matches of /range\((\d+)\)/, each <<start, end>> with end exclusive
rangeCalls(code) ==
  {r \in (0..Len(code)) \X (0..Len(code)) :
     /\ OccursAt(code, <<"r", "a", "n", "g", "e", "(">>, r[1])
     /\ r[1] + 7 < r[2]
     /\ \A k \in (r[1] + 6)..(r[2] - 2) : code[k + 1] \in Digits
     /\ code[r[2]] = ")"}

\* the first match of /range\((\d+)\)/ replaced by range(num + 1)
incrementFirstRange(code, calls) ==
  spliceAt(code, firstRun(calls)[1] + 6,
           firstRun(calls)[2] - firstRun(calls)[1] - 7,
           String(parseInt(SubSeq(code, firstRun(calls)[1] + 7,
                                  firstRun(calls)[2] - 1)) + 1))

\* mutant: the numeric literal is tried before the comparison operators
_introduceOffByOneNumberFirst(code) ==
  IF {r \in wordRuns(code) :
        \A k \in r[1]..(r[2] - 1) : code[k + 1] \in Digits} # {}
  THEN incrementFirstNumber(code,
         {r \in wordRuns(code) :
            \A k \in r[1]..(r[2] - 1) : code[k + 1] \in Digits})
  ELSE IF indexOf(code, <<"<", "=">>) # -1
  THEN replaceFirst(code, <<"<", "=">>, <<"<">>)
  ELSE IF indexOf(code, <<">", "=">>) # -1
  THEN replaceFirst(code, <<">", "=">>, <<">">>)
  ELSE code

\* the patterns in order, the first that matches applied
_introduceOffByOne(code) ==
  IF indexOf(code, <<"<", "=">>) # -1
  THEN replaceFirst(code, <<"<", "=">>, <<"<">>)
  ELSE IF indexOf(code, <<">", "=">>) # -1
  THEN replaceFirst(code, <<">", "=">>, <<">">>)
  ELSE IF {r \in wordRuns(code) :
             \A k \in r[1]..(r[2] - 1) : code[k + 1] \in Digits} # {}
  THEN incrementFirstNumber(code,
         {r \in wordRuns(code) :
            \A k \in r[1]..(r[2] - 1) : code[k + 1] \in Digits})
  ELSE IF rangeCalls(code) # {}
  THEN incrementFirstRange(code, rangeCalls(code))
  ELSE code

\* the character `, which no TLA+ string can hold
Backtick == "backtick"

typeErrorReplacements(language) ==
  IF language = "python" THEN
    <<<<<<"'">>, <<"\"">>>>,
     <<<<"s", "t", "r", "(">>, <<"i", "n", "t", "(">>>>,
     <<<<"i", "n", "t", "(">>, <<"s", "t", "r", "(">>>>,
     <<<<".", "s", "p", "l", "i", "t", "(", ")">>, <<".", "s", "t", "r", "i", "p", "(", ")">>>>,
     <<<<"[", "]">>, <<"{", "}">>>>>>
  ELSE IF language \in {"javascript", "typescript"} THEN
    <<<<<<"t", "o", "S", "t", "r", "i", "n", "g", "(", ")">>, <<"t", "o", "N", "u", "m", "b", "e", "r", "(", ")">>>>,
     <<<<"p", "a", "r", "s", "e", "I", "n", "t", "(">>, <<"p", "a", "r", "s", "e", "F", "l", "o", "a", "t", "(">>>>,
     <<<<"[", "]">>, <<"{", "}">>>>,
     <<<<"'">>, <<Backtick>>>>>>
  ELSE
    <<<<<<"i", "n", "t">>, <<"f", "l", "o", "a", "t">>>>,
     <<<<"f", "l", "o", "a", "t">>, <<"i", "n", "t">>>>,
     <<<<"[", "]">>, <<"{", "}">>>>>>

\* every string _introduceTypeErrors can return, over the replacement that
\* Math.random() picks
_introduceTypeErrors(code, language) ==
  {replaceFirst(code, r[1], r[2]) :
     r \in Range(typeErrorReplacements(language))}

\* every string _applyDegradation can return
_applyDegradation(code, method, language) ==
  IF code = <<>> THEN {code}
  ELSE IF method = "subtle_bugs" THEN _introduceSubtleBugs(code, language)
  ELSE IF method = "incomplete" THEN _makeIncomplete(code)
  ELSE IF method = "wrong_variable" THEN _useWrongVariable(code, language)
  ELSE IF method = "off_by_one" THEN {_introduceOffByOne(code)}
  ELSE IF method = "type_errors" THEN _introduceTypeErrors(code, language)
  ELSE {code}

\* example.metadata?.language || 'javascript'
languageOf(example) ==
  IF "language" \in DOMAIN example.metadata
     /\ example.metadata.language # ""
  THEN example.metadata.language
  ELSE "javascript"

\* mutant: the loop stops at an output that differs, the empty string too
RECURSIVE tryMethodsAcceptsEmpty(_, _, _)
tryMethodsAcceptsEmpty(completion, language, i) ==
  IF i > Len(methods) THEN {<<NullString, NoMethod>>}
  ELSE LET degraded == _applyDegradation(completion, methods[i], language)
           passed == {d \in degraded : d # completion}
       IN  {<<d, methods[i]>> : d \in passed}
           \cup (IF passed # degraded
                 THEN tryMethodsAcceptsEmpty(completion, language, i + 1)
                 ELSE {})

\* the loop over the methods from the i-th on: every pair
\* <<degradedCompletion, usedMethod>> it can end with, <<null, null>> when
\* no method gives a non-empty string that differs
RECURSIVE tryMethods(_, _, _)
tryMethods(completion, language, i) ==
  IF i > Len(methods) THEN {<<NullString, NoMethod>>}
  ELSE LET degraded == _applyDegradation(completion, methods[i], language)
           passed == {d \in degraded : d # <<>> /\ d # completion}
       IN  {<<d, methods[i]>> : d \in passed}
           \cup (IF passed # degraded
                 THEN tryMethods(completion, language, i + 1)
                 ELSE {})

\* the forced degradation, applied when the loop has left null
forced(completion, tried) ==
  IF tried[1] # NullString THEN tried
  ELSE IF completion = <<>> THEN tried
  ELSE IF Len(completion) <= 5
  THEN IF trim(completion) # <<>>
       THEN <<<<"u", "n", "d", "e", "f", "i", "n", "e", "d">>, "corruption">>
       ELSE tried
  ELSE <<substring(completion, 0, (Len(completion) * 7) \div 10), "incomplete">>

\* { ...example.metadata, degradationMethod: usedMethod }
withDegradationMethod(metadata, usedMethod) ==
  [f \in DOMAIN metadata \cup {"degradationMethod"} |->
     IF f = "degradationMethod" THEN usedMethod ELSE metadata[f]]

\* what is pushed for one positive example: one record or nothing
negativeOf(example, outcome) ==
  IF outcome[1] # example.completion
  THEN <<KTOExample(example.prompt, outcome[1], FALSE,
                    withDegradationMethod(example.metadata, outcome[2]))>>
  ELSE <<>>

\* the records pushed in front of the array, not behind it
RECURSIVE generateNegativeExamplesUnshift(_)
generateNegativeExamplesUnshift(positiveExamples) ==
  IF positiveExamples = <<>> THEN {<<>>}
  ELSE LET n == Len(positiveExamples)
           example == positiveExamples[n]
       IN  {negativeOf(example, forced(example.completion, tried)) \o front :
              front \in generateNegativeExamplesUnshift(
                          SubSeq(positiveExamples, 1, n - 1)),
              tried \in tryMethods(example.completion, languageOf(example), 1)}

\* every array generateNegativeExamples can return
RECURSIVE generateNegativeExamples(_)
generateNegativeExamples(positiveExamples) ==
  IF positiveExamples = <<>> THEN {<<>>}
  ELSE LET n == Len(positiveExamples)
           example == positiveExamples[n]
       IN  {front \o negativeOf(example, forced(example.completion, tried)) :
              front \in generateNegativeExamples(SubSeq(positiveExamples, 1, n - 1)),
              tried \in tryMethods(example.completion, languageOf(example), 1)}

\* every method _chooseDegradationMethod can return: each has a weight > 0
_chooseDegradationMethod == Range(methods)

----------------------------------------------------------------------------
(* DatasetBuilder.buildDPODataset *)

\* what the loop pushes for one edit pair: every record it can be
dpoExampleOf(editPair, fimFormat) ==
  UNION {
    IF preferredExamples = <<>> THEN {<<>>}
    ELSE {<<[prompt |-> preferredExamples[1].prompt,
             chosen |-> preferredExamples[1].completion,
             rejected |-> degraded,
             metadata |-> preferredExamples[1].metadata]>> :
            degraded \in UNION {
              _applyDegradation(preferredExamples[1].completion, method,
                                editPair.language) :
                method \in _chooseDegradationMethod}} :
    preferredExamples \in
      {createFIMExamples(editPair, fimFormat, cursorPositions, randoms) :
         cursorPositions \in
           selectCursorPositions(editPair.after, editPair.language, 1),
         randoms \in [1..1 -> BOOLEAN]}}

\* every array dpoExamples the loop over the edit pairs can build
RECURSIVE dpoExamplesOf(_, _)
dpoExamplesOf(editPairs, fimFormat) ==
  IF editPairs = <<>> THEN {<<>>}
  ELSE LET n == Len(editPairs)
       IN  {front \o pushed :
              front \in dpoExamplesOf(SubSeq(editPairs, 1, n - 1), fimFormat),
              pushed \in dpoExampleOf(editPairs[n], fimFormat)}

\* the orders _shuffleArray can leave an array in
shuffles(array) ==
  {[k \in 1..Len(array) |-> array[f[k]]] :
     f \in {g \in [1..Len(array) -> 1..Len(array)] :
              \A a, b \in 1..Len(array) : a # b => g[a] # g[b]}}

----------------------------------------------------------------------------
(* State *)

\* args holds the arguments of the call, for the calls whose claims need them
Result(who, op, error, examples) ==
  [who |-> who, op |-> op, error |-> error, examples |-> examples,
   args |-> <<>>]

\* an unreferenced heap cell
FreeCell == StringRegionManager(<<>>)

\* garbage collection: the cells no builder of bs refers to are freed
Collect(bs, heap) ==
  [r \in Refs |-> IF \E k \in Builders : bs[k].manager = r
                  THEN heap[r] ELSE FreeCell]

\* mutant: withCode writes the new text into the manager it already has
NewManagerInPlace(i) ==
  IF builders[i].manager # NoManager THEN builders[i].manager
  ELSE CHOOSE r \in Refs : \A k \in Builders : builders[k].manager # r

\* new StringRegionManager(code) in withCode of builder i: a reference no
\* other builder holds (the one builder i held is dropped by the assignment)
NewManager(i) ==
  CHOOSE r \in Refs :
    /\ \A k \in Builders \ {i} : builders[k].manager # r
    /\ \A q \in Refs :
         (\A k \in Builders \ {i} : builders[k].manager # q) => r <= q

\* an Example that build() of builder who returned and the caller kept:
\* region and metadata tell whether its editableRegion and its metadata are
\* still the very array and object that builder holds in its fields
Held(who, example) ==
  [who |-> who, example |-> <<example>>, region |-> TRUE, metadata |-> TRUE]

NoneHeld == [who |-> 1, example |-> <<>>, region |-> FALSE, metadata |-> FALSE]

\* builder i has been assigned a new array (region) or a new object
\* (metadata): the one the Example refers to is no longer the builder's
released(h, i, region, metadata) ==
  IF h.who # i THEN h
  ELSE [h EXCEPT !.region = @ /\ ~region, !.metadata = @ /\ ~metadata]

Init ==
  /\ builders = [i \in Builders |-> FIMExampleBuilder]
  /\ managers = [r \in Refs |-> FreeCell]
  /\ last = Result(1, "constructor", "", <<>>)
  /\ held = NoneHeld

Throw(i, op, error) ==
  /\ last' = Result(i, op, error, <<>>)
  /\ UNCHANGED <<builders, managers, held>>

----------------------------------------------------------------------------
(* The builder's methods, called on builder i *)

Reset(i) ==
  /\ builders' = [builders EXCEPT ![i] = reset(@)]
  /\ managers' = Collect(builders', managers)
  /\ last' = Result(i, "reset", "", <<>>)
  /\ held' = released(held, i, TRUE, TRUE)

WithCode(i, code) ==
  IF code = <<>>
  THEN /\ last' = [Result(i, "withCode", "Code cannot be empty", <<>>)
                   EXCEPT !.args = <<code>>]
       /\ UNCHANGED <<builders, managers, held>>
  ELSE LET ref == NewManager(i)
       IN  /\ builders' = [builders EXCEPT ![i] = withCode(@, code, ref)]
           /\ managers' = Collect(builders',
                [managers EXCEPT ![ref] = StringRegionManager(code)])
           /\ last' = [Result(i, "withCode", "", <<>>)
                       EXCEPT !.args = <<code>>]
           /\ UNCHANGED held

WithCursor(i, position) ==
  IF builders[i].manager = NoManager
  THEN Throw(i, "withCursor", "Must call withCode() before withCursor()")
  ELSE /\ builders' = [builders EXCEPT
             ![i] = withCursor(@, managers[@.manager], position)]
       /\ last' = Result(i, "withCursor", "", <<>>)
       /\ UNCHANGED <<managers, held>>

\* mutant: the bounds are written into the array the builder holds
WithEditableRegionInPlace(i, start, end) ==
  IF builders[i].manager = NoManager
  THEN Throw(i, "withEditableRegion",
             "Must call withCode() before withEditableRegion()")
  ELSE /\ builders' = [builders EXCEPT ![i] = withEditableRegion(@, start, end)]
       /\ last' = Result(i, "withEditableRegion", "", <<>>)
       /\ held' = IF held.who = i /\ held.region
                  THEN [held EXCEPT !.example[1].editableRegion =
                                      builders'[i].editableRegion]
                  ELSE held
       /\ UNCHANGED managers

WithEditableRegion(i, start, end) ==
  IF builders[i].manager = NoManager
  THEN Throw(i, "withEditableRegion",
             "Must call withCode() before withEditableRegion()")
  ELSE /\ builders' = [builders EXCEPT ![i] = withEditableRegion(@, start, end)]
       /\ last' = Result(i, "withEditableRegion", "", <<>>)
       /\ held' = released(held, i, TRUE, FALSE)
       /\ UNCHANGED managers

\* mutant: the format is stored before it is validated
WithFormatStoresInvalid(i, format) ==
  /\ builders' = [builders EXCEPT ![i] = withFormat(@, format)]
  /\ last' = [Result(i, "withFormat",
                     IF format \notin FIMFormat THEN "Invalid format" ELSE "",
                     <<>>)
              EXCEPT !.args = <<format>>]
  /\ UNCHANGED <<managers, held>>

WithFormat(i, format) ==
  IF format \notin FIMFormat
  THEN /\ last' = [Result(i, "withFormat", "Invalid format", <<>>)
                   EXCEPT !.args = <<format>>]
       /\ UNCHANGED <<builders, managers, held>>
  ELSE /\ builders' = [builders EXCEPT ![i] = withFormat(@, format)]
       /\ last' = [Result(i, "withFormat", "", <<>>)
                   EXCEPT !.args = <<format>>]
       /\ UNCHANGED <<managers, held>>

WithMetadata(i, editPair) ==
  /\ builders' = [builders EXCEPT ![i] = withMetadata(@, editPair)]
  /\ last' = Result(i, "withMetadata", "", <<>>)
  /\ held' = released(held, i, FALSE, TRUE)
  /\ UNCHANGED managers

\* keep tells whether the caller keeps the Example beyond the next call
Build(i, random, keep) ==
  IF _validate(builders[i]) # ""
  THEN Throw(i, "build", _validate(builders[i]))
  ELSE /\ last' = Result(i, "build", "",
             <<build(builders[i], managers[builders[i].manager], random)>>)
       /\ held' = IF keep THEN Held(i, last'.examples[1]) ELSE held
       /\ UNCHANGED <<builders, managers>>

\* j = i.clone(): the clone takes the place of builder j
Clone(i, j) ==
  /\ i # j
  /\ builders' = [builders EXCEPT ![j] = clone(builders[i])]
  /\ managers' = Collect(builders', managers)
  /\ last' = Result(i, "clone", "", <<>>)
  /\ held' = released(held, j, TRUE, TRUE)

----------------------------------------------------------------------------
(* FIMTransformer.createFIMExamples, which uses no builder *)

Transformer == 0

\* Math.random() is called once per cursor position, and for MIXED only
Randoms(format, n) ==
  IF format = MIXED THEN [1..n -> BOOLEAN] ELSE {[k \in 1..n |-> TRUE]}

CreateFIMExamples(editPair, format, numExamples) ==
  \E cursorPositions \in
       selectCursorPositions(editPair.after, editPair.language, numExamples) :
    \E randoms \in Randoms(format, Len(cursorPositions)) :
      /\ last' = [Result(Transformer, "createFIMExamples", "",
                     createFIMExamples(editPair, format, cursorPositions, randoms))
                   EXCEPT !.args = <<editPair, format, numExamples>>]
      /\ UNCHANGED <<builders, managers, held>>

----------------------------------------------------------------------------
(* NegativeExampleGenerator.generateNegativeExamples *)

Generator == 3

GenerateNegativeExamples(positiveExamples) ==
  \E negativeExamples \in generateNegativeExamples(positiveExamples) :
    /\ last' = [Result(Generator, "generateNegativeExamples", "",
                       negativeExamples)
                EXCEPT !.args = <<positiveExamples>>]
    /\ UNCHANGED <<builders, managers, held>>

\* the degradation methods called on their own, as the tests call them
UseWrongVariable(code, language) ==
  \E degraded \in _useWrongVariable(code, language) :
    /\ last' = [Result(Generator, "_useWrongVariable", "", <<degraded>>)
                EXCEPT !.args = <<code, language>>]
    /\ UNCHANGED <<builders, managers, held>>

MakeIncomplete(code) ==
  \E incomplete \in _makeIncomplete(code) :
    /\ last' = [Result(Generator, "_makeIncomplete", "", <<incomplete>>)
                EXCEPT !.args = <<code>>]
    /\ UNCHANGED <<builders, managers, held>>

IntroduceOffByOne(code) ==
  /\ last' = [Result(Generator, "_introduceOffByOne", "",
                     <<_introduceOffByOne(code)>>)
              EXCEPT !.args = <<code>>]
  /\ UNCHANGED <<builders, managers, held>>

----------------------------------------------------------------------------
(* The resolver, the selector and extractRegion, each called on its own *)

Processor == 5
RegionManager == 6

DetermineEditableRegion(code, cursorPos) ==
  /\ last' = [Result(Transformer, "_determineEditableRegion", "",
                     <<_determineEditableRegion(code, cursorPos)>>)
              EXCEPT !.args = <<code, cursorPos>>]
  /\ UNCHANGED <<builders, managers, held>>

SelectCursorPositions(code, language, numPositions) ==
  \E positions \in selectCursorPositions(code, language, numPositions) :
    /\ last' = [Result(Processor, "selectCursorPositions", "", positions)
                EXCEPT !.args = <<code, language, numPositions>>]
    /\ UNCHANGED <<builders, managers, held>>

ClampPosition(text, position) ==
  /\ last' = [Result(RegionManager, "clampPosition", "",
                     <<clampPosition(StringRegionManager(text), position)>>)
              EXCEPT !.args = <<text, position>>]
  /\ UNCHANGED <<builders, managers, held>>

IsValidPosition(text, position) ==
  /\ last' = [Result(RegionManager, "isValidPosition", "",
                     <<isValidPosition(StringRegionManager(text), position)>>)
              EXCEPT !.args = <<text, position>>]
  /\ UNCHANGED <<builders, managers, held>>

FindBlockBoundaries(text, position) ==
  /\ last' = [Result(RegionManager, "findBlockBoundaries", "",
                     <<findBlockBoundaries(StringRegionManager(text),
                                           position)>>)
              EXCEPT !.args = <<text, position>>]
  /\ UNCHANGED <<builders, managers, held>>

ExtractRegion(text, start, end) ==
  /\ last' = [Result(RegionManager, "extractRegion", "",
                     <<extractRegion(StringRegionManager(text), start, end)>>)
              EXCEPT !.args = <<text, start, end>>]
  /\ UNCHANGED <<builders, managers, held>>

----------------------------------------------------------------------------
(* DatasetBuilder.buildDPODataset, given the edit pairs the miner extracts *)

Dataset == 7

\* the records written to train_dpo.jsonl and then to test_dpo.jsonl
written(shuffled) ==
  LET splitIdx == (Len(shuffled) * 9) \div 10
  IN  SubSeq(shuffled, 1, splitIdx)
      \o SubSeq(shuffled, splitIdx + 1, Len(shuffled))

BuildDPODataset(editPairs, fimFormat) ==
  /\ UNCHANGED <<builders, managers, held>>
  /\ IF editPairs = <<>>
     THEN last' = [Result(Dataset, "buildDPODataset",
                          "No valid edit pairs found", <<>>)
                   EXCEPT !.args = <<editPairs, fimFormat>>]
     ELSE \E dpoExamples \in dpoExamplesOf(editPairs, fimFormat) :
            IF dpoExamples = <<>>
            THEN last' = [Result(Dataset, "buildDPODataset",
                                 "No DPO examples could be generated", <<>>)
                          EXCEPT !.args = <<editPairs, fimFormat>>]
            ELSE \E shuffled \in shuffles(dpoExamples) :
                   last' = [Result(Dataset, "buildDPODataset", "",
                                   written(shuffled))
                            EXCEPT !.args = <<editPairs, fimFormat>>]

----------------------------------------------------------------------------
(* Specifications *)

\* a lone newline
CodeNewline == <<"\n">>
Codes == {<<>>, CodeNewline, CodeAB, CodeABC, CodeToken, CodeLong}
PosInputs ==
  (-1..MaxPos) \cup {LongLen - MIDDLE_SIZE, LongLen - MIDDLE_SIZE + 1,
                     LongLen, LongLen + 1}
\* the four identifiers, a string that is none of them, and null
FormatInputs == FIMFormat \cup {"invalid_format", NoFormat}

\* one builder, every argument
Next ==
  \/ Reset(1)
  \/ \E code \in Codes : WithCode(1, code)
  \/ \E position \in PosInputs : WithCursor(1, position)
  \/ \E start \in PosInputs, end \in PosInputs :
       WithEditableRegion(1, start, end)
  \/ \E format \in FormatInputs : WithFormat(1, format)
  \/ \E editPair \in EditPairs : WithMetadata(1, editPair)
  \/ \E random \in BOOLEAN : Build(1, random, FALSE)

Spec == Init /\ [][Next]_vars

CloneCodes == {CodeAB, CodeABC}
ClonePos == {0, MaxPos}
CloneRegions == {<<0, 0>>}
CloneFormats == {ZED}

\* two builders, one cloned from the other, their calls interleaved
NextClone ==
  \/ \E i \in Builders : Reset(i)
  \/ \E i \in Builders, code \in CloneCodes : WithCode(i, code)
  \/ \E i \in Builders, position \in ClonePos : WithCursor(i, position)
  \/ \E i \in Builders, region \in CloneRegions :
       WithEditableRegion(i, region[1], region[2])
  \/ \E i \in Builders, format \in CloneFormats : WithFormat(i, format)
  \/ \E i \in Builders, editPair \in EditPairs : WithMetadata(i, editPair)
  \/ \E i \in Builders, random \in BOOLEAN : Build(i, random, FALSE)
  \/ \E i \in Builders, j \in Builders : Clone(i, j)

SpecClone == Init /\ [][NextClone]_vars

\* the edit pairs and the numbers of examples createFIMExamples is given
MaxExamples == 2
CodeBlock == <<"a", ":", "\n", " ", "b", "\n", "c">>
CodeComment == <<"#">>
PipelinePairs ==
  {EditPair(code) : code \in {<<>>, CodeAB, CodeComment, CodeBlock}}
PipelineCodes == {CodeABC}
PipelinePos == {0, MaxPos}
PipelineRegions == {<<0, 1>>}
PipelineFormats == {MIXED, ZED}

\* one builder and the transformer
NextPipeline ==
  \/ Reset(1)
  \/ \E code \in PipelineCodes : WithCode(1, code)
  \/ \E position \in PipelinePos : WithCursor(1, position)
  \/ \E region \in PipelineRegions :
       WithEditableRegion(1, region[1], region[2])
  \/ \E format \in PipelineFormats : WithFormat(1, format)
  \/ \E random \in BOOLEAN : Build(1, random, FALSE)
  \/ \E editPair \in PipelinePairs, format \in FormatInputs,
        numExamples \in 1..MaxExamples :
       CreateFIMExamples(editPair, format, numExamples)

SpecPipeline == Init /\ [][NextPipeline]_vars

\* the completions of the positive examples the generator is given
CompletionEmpty == <<>>
CompletionBlank == <<" ">>
CompletionShort == <<"x">>
CompletionAnd == <<"a", "&", "&", "b">>
CompletionBound == <<"i", "<", "=", "1">>
CompletionParens == <<"(", "(", "(", "(", "(", "(">>
CompletionSpaces == <<" ", " ", " ", " ", " ", " ">>
CompletionLines == <<"a", "b", "\n", "c", "d">>
CompletionCount == <<"n", "1", " ", "7">>
CompletionDigit == <<"1">>
CompletionLead == <<"\n", "a", "b", "c", "d", "e", "f">>

\* a positive example, its prompt telling its place in the array
Positive(place, completion, language) ==
  FIMExample(<<"p", place>>, completion, completion, PSM, 0, <<0, 0>>,
             [metadataOf(EditPair(completion)) EXCEPT !.language = language])

PositivesAt(place) ==
  {Positive(place, completion, "javascript") :
     completion \in {CompletionEmpty, CompletionBlank, CompletionShort,
                     CompletionAnd, CompletionParens, CompletionSpaces,
                     CompletionDigit, CompletionLead}}
  \cup {Positive(place, CompletionBound, "c"),
        Positive(place, CompletionLines, "python"),
        Positive(place, CompletionCount, "python")}

PositiveArrays ==
  {<<>>} \cup {<<p>> : p \in PositivesAt("1")}
  \cup {<<p, q>> : p \in PositivesAt("1"), q \in PositivesAt("2")}

\* code with one identifier, with none, with two, and with one of two
\* identifiers twice
CodeAssign == <<"x", " ", "=", " ", "1">>
CodeSum == <<"1", " ", "+", " ", "2">>
CodePair == <<"a", " ", "b">>
CodeTwice == <<"x", " ", "y", " ", "x">>
WrongVariableCodes == {<<>>, CodeAssign, CodeSum, CodePair, CodeTwice}

\* a line of 12 characters, and a newline ahead of a long line
CodeLine == SubSeq(CodeLong, 1, 12)
CodeLeadLong == <<"\n">> \o CodeLong
IncompleteCodes ==
  {<<>>, CompletionDigit, CompletionLines, CompletionLead, CodeLine,
   CodeLong, CodeLeadLong}

\* code that several of the patterns of off_by_one match, or none
CodeBoth == <<"a", ">", "=", "1", "<", "=", "b", "<", "=", "2">>
CodeAtLeast == <<"n", ">", "=", "2", ">", "=", "3">>
CodeNine == <<"x", "1", " ", "9", " ", "4">>
CodeRange == <<"r", "a", "n", "g", "e", "(", "1", "9", ")">>
CodePadded == <<"0", "0", "7">>
OffByOneCodes ==
  {<<>>, CompletionBound, CodeBoth, CodeAtLeast, CodeNine, CodeRange,
   CodePadded, CodePair}

\* the generator, and its methods called on their own
NextNegative ==
  \/ \E positiveExamples \in PositiveArrays :
       GenerateNegativeExamples(positiveExamples)
  \/ \E code \in WrongVariableCodes, language \in {"python", "javascript"} :
       UseWrongVariable(code, language)
  \/ \E code \in IncompleteCodes : MakeIncomplete(code)
  \/ \E code \in OffByOneCodes : IntroduceOffByOne(code)

SpecNegative == Init /\ [][NextNegative]_vars

CodeBraces == <<"{", "\n", " ", "x", ";", "\n", "}">>
\* a blank line and a line of spaces between two lines of text
CodeGaps == <<"a", "\n", "\n", " ", " ", "\n", " ", "b">>
UtilityCodes ==
  {<<>>, CodeAB, CodeABC, CodeComment, CodeBlock, CodeBraces, CodeGaps}
\* the offsets from before the start of a code string to beyond its end
Offsets(code) == (0 - MaxPos)..(Len(code) + MaxPos)

\* the resolver, the selector and the region manager's position methods
NextUtility ==
  \/ \E code \in UtilityCodes : \E cursorPos \in Offsets(code) :
       DetermineEditableRegion(code, cursorPos)
  \/ \E code \in UtilityCodes, numPositions \in 1..MaxExamples :
       SelectCursorPositions(code, "javascript", numPositions)
  \/ \E text \in UtilityCodes :
       \E start \in Offsets(text), end \in Offsets(text) :
         ExtractRegion(text, start, end)
  \/ \E text \in UtilityCodes : \E position \in Offsets(text) :
       ClampPosition(text, position)
  \/ \E text \in UtilityCodes : \E position \in Offsets(text) :
       FindBlockBoundaries(text, position)
  \/ \E text \in UtilityCodes : \E position \in Offsets(text) :
       IsValidPosition(text, position)

SpecUtility == Init /\ [][NextUtility]_vars

\* the edit pairs the miner hands to buildDPODataset
MinedPairs == {EditPair(code) : code \in {<<>>, CodeAB, CodeBlock}}
MinedArrays ==
  {<<>>} \cup {<<p>> : p \in MinedPairs}
  \cup {<<p, q>> : p \in MinedPairs, q \in MinedPairs}

\* the dataset builder alone
NextDPO ==
  \E editPairs \in MinedArrays, fimFormat \in {ZED, PSM} :
    BuildDPODataset(editPairs, fimFormat)

SpecDPO == Init /\ [][NextDPO]_vars

\* what one builder is given while a caller keeps the Examples it returns
FrameCodes == {CodeABC}
FramePos == {0, MaxPos}
FrameRegions == {<<0, 0>>, <<1, MaxPos>>}
FrameFormats == {ZED, PSM, MIXED}

\* one builder, and a caller that keeps an Example
NextFrame ==
  \/ Reset(1)
  \/ \E code \in FrameCodes : WithCode(1, code)
  \/ \E position \in FramePos : WithCursor(1, position)
  \/ \E region \in FrameRegions :
       WithEditableRegion(1, region[1], region[2])
  \/ \E format \in FrameFormats : WithFormat(1, format)
  \/ \E editPair \in EditPairs : WithMetadata(1, editPair)
  \/ \E random \in BOOLEAN, keep \in BOOLEAN : Build(1, random, keep)

SpecFrame == Init /\ [][NextFrame]_vars

----------------------------------------------------------------------------
(* Notation of the claims *)

\* T[a:b], the characters of T at the offsets a <= k < b that exist
Slice(T, a, b) ==
  LET lo == Max(a, 0)
      hi == Min(b, Len(T))
  IN  IF hi <= lo THEN <<>> ELSE [k \in 1..(hi - lo) |-> T[lo + k]]

\* s with every occurrence of the token tok taken out, left to right
RECURSIVE Without(_, _)
Without(s, tok) ==
  IF Len(s) < Len(tok) THEN s
  ELSE IF OccursAt(s, tok, 0)
  THEN Without(SubSeq(s, Len(tok) + 1, Len(s)), tok)
  ELSE <<s[1]>> \o Without(SubSeq(s, 2, Len(s)), tok)

\* the builder that made the last call, and what build() returned
Caller == builders[last.who]
Built == last.op = "build" /\ last.error = ""
Example == last.examples[1]
BuiltAs(format) == Built /\ Example.format = format

CodeRequired == "Code is required. Call withCode() first."
FormatRequired == "Format is required. Call withFormat() first."
RegionRequired ==
  "Editable region is required. Call withEditableRegion() first."
CursorRequired == "Cursor position is required. Call withCursor() first."

----------------------------------------------------------------------------
(* C1..C8: the builder, one instance *)

\* C1: a ZED build on code T with cursor c and inclusive region [s,e] returns
\* prompt = T[0:s] + start token + T[s:c] + cursor token and
\* completion = T[c:e+1], which is empty when c > e.
C1_ZedLayout ==
  BuiltAs(ZED) =>
    LET T == Caller.code
        c == Caller.cursorPosition[1]
        s == Caller.editableRegion[1]
        e == Caller.editableRegion[2]
    IN  /\ Example.prompt = Slice(T, 0, s) \o EDITABLE_REGION_START
                            \o Slice(T, s, c) \o USER_CURSOR_IS_HERE
        /\ Example.completion = Slice(T, c, e + 1)
        /\ c > e => Example.completion = <<>>

\* T = 'ABC', cursor 1, region [0,2]: the completion is 'BC'
C1_Witness ==
  /\ BuiltAs(ZED)
  /\ Caller.code = CodeABC
  /\ Caller.cursorPosition = <<1>>
  /\ Caller.editableRegion = <<0, 2>>
  /\ Example.completion = <<"B", "C">>

\* the prompt of a PSM or SPM Example for prefix p and suffix x
PromptOf(format, p, x) ==
  IF format = PSM THEN FIM_PREFIX \o p \o FIM_SUFFIX \o x \o FIM_MIDDLE
  ELSE FIM_SUFFIX \o x \o FIM_PREFIX \o p \o FIM_MIDDLE

\* C2: a PSM or SPM build on code T of length L with cursor c has completion
\* T[c:m] for m = c + min(50, L-c), prefix T[0:c] and suffix T[m:L] in the
\* prompt, prefix + completion + suffix = T, a completion of at most 50
\* characters and of exactly 50 when at least 50 follow the cursor.
C2_MiddleWindow ==
  (BuiltAs(PSM) \/ BuiltAs(SPM)) =>
    LET T == Caller.code
        L == Len(T)
        c == Caller.cursorPosition[1]
        m == c + Min(50, L - c)
    IN  /\ Example.completion = Slice(T, c, m)
        /\ Example.prompt =
             PromptOf(Example.format, Slice(T, 0, c), Slice(T, m, L))
        /\ Slice(T, 0, c) \o Example.completion \o Slice(T, m, L) = T
        /\ Len(Example.completion) <= 50
        /\ L - c >= 50 => Len(Example.completion) = 50

\* a PSM build with more than 50 characters after the cursor
C2_Witness ==
  /\ BuiltAs(PSM)
  /\ Len(Caller.code) - Caller.cursorPosition[1] > 50
  /\ Len(Example.completion) = 50
  /\ Len(Slice(Caller.code, Caller.cursorPosition[1] + 50, Len(Caller.code))) > 0

\* C3: for every ZED Example, prompt + completion without the start and
\* cursor tokens is exactly T[0:end+1], and the start token precedes the
\* cursor token in the prompt.
C3_ZedReconstructs ==
  BuiltAs(ZED) =>
    /\ Without(Without(Example.prompt \o Example.completion,
                       EDITABLE_REGION_START), USER_CURSOR_IS_HERE)
         = Slice(Caller.code, 0, Caller.editableRegion[2] + 1)
    /\ indexOf(Example.prompt, EDITABLE_REGION_START)
         < indexOf(Example.prompt, USER_CURSOR_IS_HERE)

\* C4: in a PSM prompt the first prefix token comes before the first suffix
\* token, which comes before the first middle token; in an SPM prompt the
\* order of the first occurrences is suffix, prefix, middle.
C4_TokenOrder ==
  /\ BuiltAs(PSM) =>
       /\ indexOf(Example.prompt, FIM_PREFIX) < indexOf(Example.prompt, FIM_SUFFIX)
       /\ indexOf(Example.prompt, FIM_SUFFIX) < indexOf(Example.prompt, FIM_MIDDLE)
  /\ BuiltAs(SPM) =>
       /\ indexOf(Example.prompt, FIM_SUFFIX) < indexOf(Example.prompt, FIM_PREFIX)
       /\ indexOf(Example.prompt, FIM_PREFIX) < indexOf(Example.prompt, FIM_MIDDLE)

\* the fields of b that _validate finds unset, in the order it tests them
Unset(b) ==
  <<b.code = <<>>, b.format = NoFormat, b.editableRegion = NULL,
    b.cursorPosition = NULL>>
Required == <<CodeRequired, FormatRequired, RegionRequired, CursorRequired>>

\* C5: build() fails, returning no Example, exactly when code, format,
\* region or cursor is unset; a cursor of 0 is set; the error names the first
\* unset field in the order code, format, region, cursor.
C5_BuildFailsIffUnset ==
  last.op = "build" =>
    LET unset == {k \in 1..4 : Unset(Caller)[k]}
    IN  /\ (last.error # "") <=> (unset # {})
        /\ last.error # "" => last.examples = <<>>
        /\ last.error = "" => Len(last.examples) = 1
        /\ \A k \in unset :
             (\A j \in unset : k <= j) => last.error = Required[k]

\* build() on a builder with code but neither format nor cursor
C5_Witness ==
  /\ last.op = "build"
  /\ Caller.code # <<>>
  /\ Caller.format = NoFormat
  /\ Caller.editableRegion # NULL
  /\ Caller.cursorPosition = NULL
  /\ last.error = FormatRequired

\* C6: on a builder that holds no code, withCursor and withEditableRegion
\* fail, build() fails with the code-required error, and the failed call
\* changes no field; after reset() code, format, cursor, region and metadata
\* have their initial empty values.
C6_NoCode ==
  [][LET i == last'.who
     IN  /\ (builders[i].code = <<>>
               /\ last'.op \in {"withCursor", "withEditableRegion", "build"})
             => /\ last'.error # ""
                /\ last'.op = "build" => last'.error = CodeRequired
                /\ builders' = builders
         /\ last'.op = "reset"
             => /\ builders'[i].code = <<>>
                /\ builders'[i].format = NoFormat
                /\ builders'[i].cursorPosition = NULL
                /\ builders'[i].editableRegion = NULL
                /\ builders'[i].metadata = EmptyMetadata
                /\ _validate(builders'[i]) = CodeRequired]_vars

\* withCursor has failed on a builder without code that holds a format
C6_Witness ==
  /\ last.op = "withCursor"
  /\ last.error = "Must call withCode() before withCursor()"
  /\ Caller.code = <<>>
  /\ Caller.format = ZED

\* C7: a successful withCode on a builder that has a cursor or a region
\* leaves both unset, so that build() fails until they are set again.
C7_WithCodeResets ==
  [][LET i == last'.who
     IN  (/\ last'.op = "withCode"
          /\ last'.error = ""
          /\ (builders[i].cursorPosition # NULL
                \/ builders[i].editableRegion # NULL))
         => /\ builders'[i].cursorPosition = NULL
            /\ builders'[i].editableRegion = NULL
            /\ _validate(builders'[i]) # ""]_vars

\* C8: after withEditableRegion on code of length L >= 1 the region [s,e]
\* has 0 <= s <= e <= L-1, and a cursor that was set is within [s, e+1]
\* and is the old cursor when that was within [s, e+1].
C8_RegionClamped ==
  [][LET i == last'.who
         L == Len(builders[i].code)
         s == builders'[i].editableRegion[1]
         e == builders'[i].editableRegion[2]
         c == builders[i].cursorPosition
         c2 == builders'[i].cursorPosition
     IN  (last'.op = "withEditableRegion" /\ last'.error = "")
         => /\ L >= 1
            /\ 0 <= s /\ s <= e /\ e <= L - 1
            /\ c = NULL => c2 = NULL
            /\ c # NULL =>
                 /\ c2 # NULL
                 /\ s <= c2[1] /\ c2[1] <= e + 1
                 /\ (s <= c[1] /\ c[1] <= e + 1) => c2 = c]_vars

\* withEditableRegion has left the cursor one past the end of the region
C8_Witness ==
  /\ last.op = "withEditableRegion"
  /\ last.error = ""
  /\ Caller.editableRegion = <<Len(Caller.code) - 1, Len(Caller.code) - 1>>
  /\ Caller.cursorPosition = <<Len(Caller.code)>>

----------------------------------------------------------------------------
(* C9: the MIXED format, in the builder and in the transformer *)

\* the Example x has the PSM or the SPM layout on code T at its own cursor
LaidOut(x, T) ==
  LET L == Len(T)
      c == x.cursorPosition
      m == c + Min(50, L - c)
  IN  /\ x.format \in {PSM, SPM}
      /\ x.prompt = PromptOf(x.format, Slice(T, 0, c), Slice(T, m, L))
      /\ x.completion = Slice(T, c, m)

\* C9: a build() on a builder whose format is MIXED, and a createFIMExamples
\* call asked for MIXED, yield only Examples of format PSM or SPM whose
\* prompt has that layout; no Example of any call has the format 'mixed';
\* and build() leaves the builder's format MIXED.
C9_MixedResolves ==
  [][LET i == last'.who
         made == last'.examples
     IN  /\ (last'.op = "build" /\ last'.error = ""
                /\ builders[i].format = MIXED)
             => /\ Len(made) = 1
                /\ LaidOut(made[1], builders[i].code)
                /\ made[1].cursorPosition = builders[i].cursorPosition[1]
                /\ builders'[i].format = MIXED
         /\ (last'.op = "createFIMExamples" /\ last'.args[2] = MIXED)
             => \A k \in 1..Len(made) : LaidOut(made[k], last'.args[1].after)
         /\ \A k \in 1..Len(made) : made[k].format # MIXED]_vars

\* createFIMExamples, asked for MIXED, has returned a PSM and an SPM
\* Example while the builder holds the format MIXED and is ready to build
C9_Witness ==
  /\ last.op = "createFIMExamples"
  /\ last.args[2] = MIXED
  /\ Len(last.examples) = 2
  /\ last.examples[1].format = PSM
  /\ last.examples[2].format = SPM
  /\ builders[1].format = MIXED
  /\ _validate(builders[1]) = ""


\* what builder i holds in the builders bs and the heap, its manager
\* followed to the text it wraps
View(bs, heap, i) ==
  [code |-> bs[i].code,
   cursorPosition |-> bs[i].cursorPosition,
   editableRegion |-> bs[i].editableRegion,
   format |-> bs[i].format,
   metadata |-> bs[i].metadata,
   text |-> IF bs[i].manager = NoManager THEN NULL
            ELSE <<heap[bs[i].manager].text>>]

\* C10: a builder and its clone are isolated. A call on one builder leaves
\* what the other holds unchanged, clone() copies the builder without
\* changing it, and an Example is cut from the code of the builder that built
\* it, although the two share one StringRegionManager.
C10_CloneIsolated ==
  [][LET i == last'.who
         j == CHOOSE k \in Builders : k # i
         ex == last'.examples[1]
         T == builders[i].code
         c == builders[i].cursorPosition[1]
         before(k) == View(builders, managers, k)
         after(k) == View(builders', managers', k)
     IN  /\ last'.op # "clone" => after(j) = before(j)
         /\ last'.op = "clone" => after(i) = before(i) /\ after(j) = before(i)
         /\ (last'.op = "build" /\ last'.error = "") =>
              /\ ex.cursorPosition = c
              /\ ex.editableRegion = builders[i].editableRegion
              /\ ex.metadata = builders[i].metadata
              /\ ex.format = ZED =>
                   ex.completion = Slice(T, c, builders[i].editableRegion[2] + 1)
              /\ ex.format # ZED =>
                   /\ ex.completion = Slice(T, c, c + Min(50, Len(T) - c))
                   /\ ex.context = T]_vars

\* builder 2 shares its manager with builder 1, as only a clone does, holds
\* another cursor, and has built an Example from the code they share
C10_Witness ==
  /\ last.op = "build" /\ last.error = "" /\ last.who = 2
  /\ builders[1].manager = builders[2].manager
  /\ builders[1].cursorPosition # NULL
  /\ builders[2].cursorPosition # builders[1].cursorPosition
  /\ builders[2].editableRegion # builders[1].editableRegion
  /\ Example.completion # <<>>

----------------------------------------------------------------------------
(* C11..C13: the negative examples *)

Generated == last.op = "generateNegativeExamples"
positives == last.args[1]
negatives == last.examples

\* the place in the input of the positive the k-th record was made from
placeOf(k) ==
  CHOOSE j \in 1..Len(positives) : positives[j].prompt = negatives[k].prompt

\* C11: generateNegativeExamples emits at most one record per positive
\* example, in the order of the input, and a record made from a positive with
\* a non-empty completion has a completion that differs from the positive's.
C11_OnePerPositive ==
  Generated =>
    /\ \A k \in 1..Len(negatives) :
         /\ \E j \in 1..Len(positives) :
              positives[j].prompt = negatives[k].prompt
         /\ positives[placeOf(k)].completion # <<>>
              => negatives[k].completion # positives[placeOf(k)].completion
    /\ \A k, l \in 1..Len(negatives) : k < l => placeOf(k) < placeOf(l)

\* two positives with non-empty completions, a record emitted for each
C11_Witness ==
  /\ Generated
  /\ Len(positives) = 2
  /\ Len(negatives) = 2
  /\ positives[1].completion = CompletionAnd
  /\ positives[2].completion = CompletionShort

\* whether no method and no fallback can make the completion differ
Undegradable(completion) ==
  \/ completion = <<>>
  \/ Len(completion) <= 5 /\ trim(completion) = <<>>

\* C12: no record is emitted for a positive whose completion is empty or is
\* at most 5 characters of whitespace, and every emitted record has a
\* completion that is a non-empty string.
C12_NothingForUndegradable ==
  Generated =>
    /\ \A j \in 1..Len(positives) :
         Undegradable(positives[j].completion)
           => \A k \in 1..Len(negatives) :
                negatives[k].prompt # positives[j].prompt
    /\ \A k \in 1..Len(negatives) :
         /\ negatives[k].completion # NullString
         /\ negatives[k].completion # <<>>

\* C13: every emitted record has label = false and a degradationMethod that
\* is one of the five methods of the table.
C13_MethodOfTable ==
  Generated =>
    \A k \in 1..Len(negatives) :
      /\ negatives[k].label = FALSE
      /\ negatives[k].metadata.degradationMethod \in Range(methods)

----------------------------------------------------------------------------
(* C14, C15: the editable region the resolver returns *)

Resolved == last.op = "_determineEditableRegion"

\* C14: for non-empty code and any cursor offset, negative and past the end
\* too, the resolver returns [s, e] with s <= c <= e for c the cursor clamped
\* into the code, be it into [0, len] as the resolver clamps it or into
\* [0, len - 1]; for empty code it returns [0, 0].
C14_CursorInRegion ==
  Resolved =>
    LET code == last.args[1]
        c == Max(0, Min(last.args[2], Len(code)))
        s == last.examples[1][1]
        e == last.examples[1][2]
    IN  IF code = <<>> THEN s = 0 /\ e = 0
        ELSE s <= c /\ c <= e /\ s <= Max(0, Min(c, Len(code) - 1))

\* the resolver, given a cursor past the end of code whose last line is a
\* block of its own, has returned that line
C14_Witness ==
  /\ Resolved
  /\ last.args[1] = CodeBlock
  /\ last.args[2] > Len(CodeBlock)
  /\ last.examples[1] = <<6, 7>>

\* C15: for non-empty code the region [s, e] of the resolver has
\* 0 <= s <= e < len(code): e is the index of a character of the code.
C15_InclusiveBounds ==
  (Resolved /\ last.args[1] # <<>>) =>
    /\ 0 <= last.examples[1][1]
    /\ last.examples[1][1] <= last.examples[1][2]
    /\ last.examples[1][2] < Len(last.args[1])

----------------------------------------------------------------------------
(* C16, C17: the cursor positions the selector returns *)

Selected == last.op = "selectCursorPositions"

\* C16: for non-empty code and k >= 1, selectCursorPositions returns between
\* 1 and k offsets in ascending order, each in [0, len(code) - 1], whatever
\* the random source yields; for empty code it returns [0].
C16_SelectorBounded ==
  Selected =>
    LET code == last.args[1]
        k == last.args[3]
        positions == last.examples
    IN  IF code = <<>> THEN positions = <<0>>
        ELSE /\ 1 <= Len(positions)
             /\ Len(positions) <= k
             /\ \A a, b \in 1..Len(positions) :
                  a < b => positions[a] <= positions[b]
             /\ \A a \in 1..Len(positions) :
                  0 <= positions[a] /\ positions[a] <= Len(code) - 1

\* two of the three candidate positions of a three-line code, picked at
\* random and returned in order
C16_Witness ==
  /\ Selected
  /\ last.args[1] = CodeBlock
  /\ last.args[3] = 2
  /\ last.examples = <<2, 6>>

\* C17: the array selectCursorPositions returns never holds the same offset
\* twice, for code of comment lines only and for code shorter than k too.
C17_NoDuplicates ==
  Selected =>
    \A a, b \in 1..Len(last.examples) :
      a # b => last.examples[a] # last.examples[b]

----------------------------------------------------------------------------
(* C18: extractRegion *)

\* C18: extractRegion(a, b) on text T never fails and returns T[a':b'] for
\* a' = clamp(a, 0, len) and b' = clamp(b, a', len); its length is at most
\* len(T) and at most max(0, b - a), it is '' when b <= a, and
\* extractRegion(0, len(T)) is T.
C18_ExtractRegion ==
  last.op = "extractRegion" =>
    LET T == last.args[1]
        a == last.args[2]
        b == last.args[3]
        a1 == Max(0, Min(a, Len(T)))
        b1 == Max(a1, Min(b, Len(T)))
        region == last.examples[1]
    IN  /\ last.error = ""
        /\ region = Slice(T, a1, b1)
        /\ Len(region) <= Len(T)
        /\ Len(region) <= Max(0, b - a)
        /\ b <= a => region = <<>>
        /\ (a = 0 /\ b = Len(T)) => region = T

\* a region cut out of the inside of a text, its end beyond the text
C18_Witness ==
  /\ last.op = "extractRegion"
  /\ last.args = <<CodeABC, 1, Len(CodeABC) + 1>>
  /\ last.examples[1] = <<"B", "C">>

----------------------------------------------------------------------------
(* C19: the preference pairs *)

----------------------------------------------------------------------------
(* C20: withCode and blank code *)

\* C20: withCode(code) fails and leaves the builder unchanged when code is
\* empty or holds whitespace only, and succeeds, storing the code, for every
\* other string.
C20_BlankCodeRejected ==
  [][last'.op = "withCode" =>
       IF trim(last'.args[1]) = <<>>
       THEN last'.error # "" /\ builders' = builders
       ELSE /\ last'.error = ""
            /\ builders'[last'.who].code = last'.args[1]]_vars

----------------------------------------------------------------------------
(* C21: withFormat *)

\* C21: withFormat(fmt) succeeds exactly for prefix_suffix_middle,
\* suffix_prefix_middle, zed_format and mixed, in any builder state (also
\* before withCode), and then stores fmt; for any other value it fails and
\* the stored format is left as it was.
C21_WithFormat ==
  [][LET i == last'.who
         fmt == last'.args[1]
     IN  last'.op = "withFormat"
         => /\ (last'.error = "") <=>
                 fmt \in {"prefix_suffix_middle", "suffix_prefix_middle",
                          "zed_format", "mixed"}
            /\ last'.error = "" => builders'[i].format = fmt
            /\ last'.error # "" => builders'[i].format = builders[i].format
            /\ \A f \in DOMAIN builders[i] \ {"format"} :
                 builders'[i][f] = builders[i][f]]_vars

\* withFormat(null) has failed on a builder without code that holds zed_format
C21_Witness ==
  /\ last.op = "withFormat"
  /\ last.args = <<NoFormat>>
  /\ last.error = "Invalid format"
  /\ Caller.code = <<>>
  /\ Caller.format = ZED

----------------------------------------------------------------------------
(* C22: clampPosition and isValidPosition *)

\* C22: for every text T and integer p, clampPosition(p) lies in
\* [0, len(T)], equals p when p is in that range, and clamping it again gives
\* the same value; isValidPosition(p) is true exactly when
\* clampPosition(p) = p.
C22_ClampPosition ==
  LET T == last.args[1]
      p == last.args[2]
      m == StringRegionManager(T)
  IN  /\ last.op = "clampPosition" =>
           LET c == last.examples[1]
           IN  /\ 0 <= c /\ c <= Len(T)
               /\ (0 <= p /\ p <= Len(T)) => c = p
               /\ clampPosition(m, c) = c
      /\ last.op = "isValidPosition" =>
           (last.examples[1] = TRUE <=> clampPosition(m, p) = p)

\* a position beyond the end of a non-empty text has been clamped to its
\* length
C22_Witness ==
  /\ last.op = "clampPosition"
  /\ last.args[1] = CodeABC
  /\ last.args[2] > Len(CodeABC)
  /\ last.examples = <<Len(CodeABC)>>

----------------------------------------------------------------------------
(* C23: the order of the methods *)

\* the strings the j-th method of the table can make of the completion of x
outputs(x, j) == _applyDegradation(x.completion, methods[j], languageOf(x))

\* those of them the loop accepts: non-empty and not the completion itself
usable(x, j) == {d \in outputs(x, j) : d # <<>> /\ d # x.completion}

----------------------------------------------------------------------------
(* C24: wrong_variable *)

\* the whole-word occurrences of the identifier v in code
occurrences(code, v) == {r \in wordRuns(code) : runText(code, r) = v}

\* C24: when the code holds at least two distinct identifiers,
\* _useWrongVariable replaces every whole-word occurrence of one of them by
\* another, so that the first no longer occurs and the second occurs where
\* either did; with fewer than two distinct identifiers the code is
\* returned unchanged.
C24_WrongVariable ==
  last.op = "_useWrongVariable" =>
    LET code == last.args[1]
        degraded == last.examples[1]
        variables ==
          {runText(code, r) : r \in identifierRuns(code, last.args[2])}
    IN  IF Cardinality(variables) < 2 THEN degraded = code
        ELSE \E var1 \in variables : \E var2 \in variables \ {var1} :
               /\ occurrences(degraded, var1) = {}
               /\ Cardinality(occurrences(degraded, var2))
                    = Cardinality(occurrences(code, var1))
                      + Cardinality(occurrences(code, var2))
               /\ Len(degraded) = Len(code)
                    + Cardinality(occurrences(code, var1))
                      * (Len(var2) - Len(var1))

----------------------------------------------------------------------------
(* C25: incomplete *)

\* C25: for non-empty code of length L, _makeIncomplete returns a strict
\* prefix of the code, cut at cutPoint = floor(p*L/100) for some p in
\* [60,80), or at the last newline before cutPoint when there is one within
\* the last 20 characters before cutPoint; code without a newline is cut at
\* cutPoint exactly.
C25_Incomplete ==
  (last.op = "_makeIncomplete" /\ last.args[1] # <<>>) =>
    LET code == last.args[1]
        L == Len(code)
        incomplete == last.examples[1]
    IN  /\ Len(incomplete) < L
        /\ incomplete = Slice(code, 0, Len(incomplete))
        /\ \E cutPoint \in 0..L :
             /\ 100 * cutPoint < 80 * L
             /\ 100 * (cutPoint + 1) > 60 * L
             /\ LET near == {k \in 0..(cutPoint - 1) :
                               code[k + 1] = "\n" /\ k > cutPoint - 20}
                IN  IF near = {} THEN Len(incomplete) = cutPoint
                    ELSE /\ Len(incomplete) \in near
                         /\ \A k \in near : k <= Len(incomplete)

----------------------------------------------------------------------------
(* C26: off_by_one *)

\* the bare integer literals of code: the maximal runs of word characters
\* that are digits throughout
literals(code) ==
  {r \in wordRuns(code) : \A k \in r[1]..(r[2] - 1) : code[k + 1] \in Digits}

\* whether degraded is code with the n characters at offset a replaced by
\* the string put
Substituted(code, degraded, a, n, put) ==
  /\ Len(degraded) = Len(code) - n + Len(put)
  /\ Slice(degraded, 0, a) = Slice(code, 0, a)
  /\ Slice(degraded, a, a + Len(put)) = put
  /\ Slice(degraded, a + Len(put), Len(degraded))
       = Slice(code, a + n, Len(code))

\* whether degraded is code with the digits at the offsets a <= k < b
\* replaced by the decimal digits of their value plus one
Incremented(code, degraded, a, b) ==
  \E put \in {String(v) : v \in 1..(parseInt(Slice(code, a, b)) + 1)} :
    /\ parseInt(put) = parseInt(Slice(code, a, b)) + 1
    /\ Substituted(code, degraded, a, b - a, put)

\* C26: _introduceOffByOne makes one substitution, the first of these that
\* applies: the first '<=' becomes '<'; the first '>=' becomes '>'; the
\* first bare integer literal n becomes n+1; the argument of the first
\* range(n) becomes n+1. Code that matches none is returned unchanged.
C26_OffByOne ==
  last.op = "_introduceOffByOne" =>
    LET code == last.args[1]
        degraded == last.examples[1]
        le == indexOf(code, <<"<", "=">>)
        ge == indexOf(code, <<">", "=">>)
    IN  IF le # -1 THEN Substituted(code, degraded, le, 2, <<"<">>)
        ELSE IF ge # -1 THEN Substituted(code, degraded, ge, 2, <<">">>)
        ELSE IF literals(code) # {}
        THEN \E r \in literals(code) :
               /\ \A q \in literals(code) : r[1] <= q[1]
               /\ Incremented(code, degraded, r[1], r[2])
        ELSE IF rangeCalls(code) # {}
        THEN \E r \in rangeCalls(code) :
               /\ \A q \in rangeCalls(code) : r[1] <= q[1]
               /\ Incremented(code, degraded, r[1] + 6, r[2] - 1)
        ELSE degraded = code

\* code with '>=', a literal and '<=' twice: the first '<=' alone has changed
C26_Witness ==
  /\ last.op = "_introduceOffByOne"
  /\ last.args = <<CodeBoth>>
  /\ last.examples = <<<<"a", ">", "=", "1", "<", "b", "<", "=", "2">>>>

----------------------------------------------------------------------------
(* C27: findBlockBoundaries without a boundary *)

\* the 0-based number of the line of T that holds the offset pos
lineOf(T, pos) == Cardinality({k \in 1..pos : T[k] = "\n"})

\* whether neither scan from the line of pos finds a boundary: no earlier
\* line that is not blank is indented less, and no later line that is not
\* blank is indented as much as the line or less
Unbounded(T, pos) ==
  LET lines == split(T)
      indent == _getIndentLevel(lines[lineOf(T, pos) + 1])
  IN  /\ \A i \in 0..(lineOf(T, pos) - 1) :
           trim(lines[i + 1]) = <<>> \/ _getIndentLevel(lines[i + 1]) >= indent
      /\ \A i \in (lineOf(T, pos) + 1)..(Len(lines) - 1) :
           trim(lines[i + 1]) = <<>> \/ _getIndentLevel(lines[i + 1]) > indent

Bounded == last.op = "findBlockBoundaries"
block == last.examples[1]

\* C27 (as stated): when neither scan finds a boundary, findBlockBoundaries
\* returns the current line alone: startLine = endLine = the line of pos,
\* start = its first offset, end = the offset after its last character.
C27_CurrentLineAlone ==
  LET T == last.args[1]
      pos == last.args[2]
      lines == split(T)
  IN  (Bounded /\ 0 <= pos /\ pos <= Len(T) /\ Unbounded(T, pos)) =>
        /\ block.startLine = <<lineOf(T, pos)>>
        /\ block.endLine = <<lineOf(T, pos)>>
        /\ block.start = _lineToPosition(lines, lineOf(T, pos))
        /\ block.end = block.start + Len(lines[lineOf(T, pos) + 1])

\* C27 (amended): when neither scan finds a boundary, findBlockBoundaries
\* returns the lines from the current one to the last of the text:
\* startLine = the line of pos, endLine = the last line, start = the first
\* offset of the line of pos, end = len(text); that is the current line
\* alone when it is the last line.
C27_ToLastLine ==
  LET T == last.args[1]
      pos == last.args[2]
      lines == split(T)
  IN  (Bounded /\ 0 <= pos /\ pos <= Len(T) /\ Unbounded(T, pos)) =>
        /\ block.startLine = <<lineOf(T, pos)>>
        /\ block.endLine = <<Len(lines) - 1>>
        /\ block.start = _lineToPosition(lines, lineOf(T, pos))
        /\ block.end = Len(T)

\* offset 0 of 'a', two blank lines and ' b': the block runs to the end
C27_Witness ==
  /\ Bounded
  /\ last.args = <<CodeGaps, 0>>
  /\ Unbounded(CodeGaps, 0)
  /\ block.startLine = <<0>>
  /\ block.endLine = <<3>>
  /\ block.end = Len(CodeGaps)

----------------------------------------------------------------------------
(* C28: the cursor of a built Example *)

\* C28: every Example that build() returns has editableRegion[0] <=
\* cursorPosition <= editableRegion[1] + 1 and 0 <= cursorPosition <=
\* len(code), whatever the order of the calls before it: the cursor set
\* before the region or after it, the code replaced by a later withCode.
C28_CursorWithinRegion ==
  Built =>
    /\ Example.editableRegion[1] <= Example.cursorPosition
    /\ Example.cursorPosition <= Example.editableRegion[2] + 1
    /\ 0 <= Example.cursorPosition
    /\ Example.cursorPosition <= Len(Caller.code)

----------------------------------------------------------------------------
(* C29: the transformer and the builder *)

\* what a new builder returns for the code, the cursor c and the region
\* [s, e] in the ZED format
builtFrom(code, c, s, e) ==
  _buildZedFormat(
    withFormat(
      withEditableRegion(
        withCursor(withCode(FIMExampleBuilder, code, 1),
                   StringRegionManager(code), c),
        s, e),
      ZED),
    StringRegionManager(code))

\* C29: a ZED Example of createFIMExamples, with editableRegion [s, e] and
\* cursorPosition c, has completion = code[c:e+1], the inclusive end of the
\* builder, and the prompt and completion the builder returns for the same
\* code, cursor and region.
C29_SameConvention ==
  (last.op = "createFIMExamples" /\ last.args[2] = ZED) =>
    \A k \in 1..Len(last.examples) :
      LET x == last.examples[k]
          code == last.args[1].after
          c == x.cursorPosition
          s == x.editableRegion[1]
          e == x.editableRegion[2]
      IN  /\ x.completion = Slice(code, c, e + 1)
          /\ x.prompt = builtFrom(code, c, s, e).prompt
          /\ x.completion = builtFrom(code, c, s, e).completion

----------------------------------------------------------------------------
(* C30: build() and the Examples it has returned *)

\* C30: build() changes no field of the builder, whether it succeeds or
\* fails; a second build() right after a successful one, with a format other
\* than MIXED, returns an equal Example; and an Example that was returned
\* and kept is the same after any later withCursor, withEditableRegion,
\* withMetadata, withCode or reset on the builder.
C30_BuildFrame ==
  [][LET i == last'.who
     IN  /\ last'.op = "build"
             => builders' = builders /\ managers' = managers
         /\ (/\ last.op = "build" /\ last.error = "" /\ last.who = i
             /\ last'.op = "build"
             /\ builders[i].format # MIXED)
             => last'.error = "" /\ last'.examples = last.examples
         /\ (/\ held.example # <<>>
             /\ last'.op \in {"withCursor", "withEditableRegion",
                               "withMetadata", "withCode", "reset"})
             => held'.example = held.example]_vars

\* withEditableRegion has given the builder another region than that of the
\* Example kept from an earlier build(), whose metadata the builder shares
C30_Witness ==
  /\ last.op = "withEditableRegion"
  /\ last.error = ""
  /\ held.example # <<>>
  /\ held.who = last.who
  /\ held.metadata
  /\ held.example[1].editableRegion # Caller.editableRegion
  /\ held.example[1].metadata = Caller.metadata
====
